---- MODULE Spec2Model ----
(***************************************************************************)
(* Catchment-area (isochrone) service of goat-routing.                     *)
(*                                                                         *)
(*   - read_network / compute_segment_cost  (src/crud/crud_isochrone.py)   *)
(*     as operators over a small segment table, and the specification     *)
(*     SpecRead that applies read_network to bounded inputs;               *)
(*   - CRUDIsochrone.run together with the request layer                   *)
(*     compute_catchment_area (src/endpoints/v2/routing.py) as the state   *)
(*     machine Spec.                                                       *)
(*                                                                         *)
(* Units: length_m in metres, impedances in whole units (1 = +100 %),      *)
(* time costs in milliseconds (length_m / (speed / 3.6) seconds).          *)
(* Columns that read_network only passes through (length_3857,             *)
(* coordinates_3857, tags) are left out of the edge records.               *)
(***************************************************************************)
EXTENDS Integers, Sequences, FiniteSets, TLC

\* ------------------------------------------------------------------ bounds
\* largest number of starting points of one request
MaxPoints == 2
\* largest |impedance| stored in the segment table
MaxImp == 2
\* length of the segment whose attributes vary
MaxLen == 7

\* ------------------------------------------------------- program constants
\* SQL NULL / Python None in a nullable integer column
NULL == -1000
\* bounds of TravelTimeCostActiveMobility.speed (km/h)
MinSpeed == 1
MaxSpeed == 25

VALID_WALKING_CLASSES ==
    << "secondary", "tertiary", "residential", "livingStreet", "trunk",
       "unclassified", "parkingAisle", "driveway", "pedestrian", "footway",
       "steps", "track", "bridleway", "unknown" >>

VALID_BICYCLE_CLASSES ==
    << "secondary", "tertiary", "residential", "livingStreet", "trunk",
       "unclassified", "parkingAisle", "driveway", "pedestrian", "track",
       "cycleway", "bridleway", "unknown" >>

RoutingActiveMobilityType == {"walking", "bicycle", "pedelec"}

IsochroneType == {"polygon", "network", "rectangular_grid"}

\* ------------------------------------------------------------ seq helpers
Range(s) == {s[i] : i \in 1..Len(s)}

RECURSIVE FlatMap(_, _)
\* concatenation of f[s[1]], f[s[2]], ... (f a function onto sequences)
FlatMap(f, s) ==
    IF s = << >> THEN << >> ELSE f[Head(s)] \o FlatMap(f, Tail(s))

RECURSIVE SortedSeq(_)
\* the elements of a finite set of integers in ascending order
SortedSeq(S) ==
    IF S = {} THEN << >>
    ELSE LET m == CHOOSE x \in S : \A y \in S : x <= y
         IN  << m >> \o SortedSeq(S \ {m})

\* --------------------------------------------------------- H3 cell layout
\* short H3-3 index of the parent of a short H3-6 index
H3Parent(h3_6) == h3_6 \div 10

\* H3-3 cells of the network region (temporal.fill_polygon_h3_3 of the
\* geofence) and H3-6 cells that an isochrone buffer can touch; cell 31
\* lies outside the region
RegionH3_3 == {1, 2}
AllH3_6 == {11, 12, 21, 22, 31}

\* ------------------------------------------------------------ basic.segment
Edge(id, source, target, length_m, class_, slope, slope_rev, surface, h3_6) ==
    [id |-> id, source |-> source, target |-> target, length_m |-> length_m,
     class_ |-> class_, impedance_slope |-> slope,
     impedance_slope_reverse |-> slope_rev, impedance_surface |-> surface,
     h3_3 |-> H3Parent(h3_6), h3_6 |-> h3_6]

\* the segment table with the attributes of segment 1 given
SegmentTable(class_, length_m, slope, slope_rev, surface) ==
    << Edge(1, 1, 2, length_m, class_, slope, slope_rev, surface, 11),
       Edge(2, 2, 3, 5, "footway", NULL, NULL, NULL, 12),
       Edge(3, 3, 4, 4, "cycleway", 1, -1, 0, 21),
       Edge(4, 4, 5, 9, "motorway", 0, 0, 0, 21),
       Edge(5, 5, 6, 0, "pedestrian", -2, 2, 1, 22),
       Edge(6, 6, 7, 3, "steps", 0, 0, NULL, 31) >>

DefaultSegments == SegmentTable("residential", MaxLen, 0, 0, 0)

ClassSample == {"residential", "pedestrian", "footway", "motorway"}
ImpedanceValues == {NULL} \cup (-MaxImp .. MaxImp)


\* ---------------------------------------------------------------- requests
TimeCost(speed) == [kind |-> "time", speed |-> speed]
DistanceCost == [kind |-> "distance"]

\* the travel_cost values of the requests that are explored
TravelCosts == {TimeCost(MinSpeed), TimeCost(MaxSpeed), DistanceCost}

\* A starting point is given by the ids of the segments within snapping
\* distance of it, closest first (empty: no segment is near the point)
NearLists == {<< >>, << 1 >>, << 2, 1 >>, << 4 >>}

StartingPoints ==
    UNION {[1..n -> NearLists] : n \in 1..MaxPoints}

\* ------------------------------------------- temporal.get_artificial_segments
\* first id of the namespace of artificial segments, and of their connectors
ArtificialIdBase == 1000
ConnectorIdBase == 2000

SegmentById(segment, id) ==
    segment[CHOOSE i \in 1..Len(segment) : segment[i].id = id]

\* the closest segment of an allowed class, or NULL
BestSegment(segment, near, classes) ==
    LET ok == SelectSeq(near, LAMBDA id : SegmentById(segment, id).class_ \in classes)
    IN  IF ok = << >> THEN NULL ELSE Head(ok)

\* the two artificial segments that replace segment r, split at the
\* projection of point number i: (connector -> r.target) carries the point,
\* (r.source -> connector) does not
SplitRows(r, i) ==
    LET first == r.length_m \div 2
        common == [old_id |-> r.id, class_ |-> r.class_,
                   impedance_slope |-> r.impedance_slope,
                   impedance_slope_reverse |-> r.impedance_slope_reverse,
                   impedance_surface |-> r.impedance_surface,
                   h3_3 |-> r.h3_3, h3_6 |-> r.h3_6,
                   point_h3_10 |-> r.h3_6 * 10 + i, point_h3_3 |-> r.h3_3]
    IN  << common @@ [point_id |-> i, id |-> ArtificialIdBase + 2 * i - 1,
                      source |-> ConnectorIdBase + i, target |-> r.target,
                      length_m |-> r.length_m - first],
           common @@ [point_id |-> NULL, id |-> ArtificialIdBase + 2 * i,
                      source |-> r.source, target |-> ConnectorIdBase + i,
                      length_m |-> first] >>

\* rows returned by temporal.get_artificial_segments(input_table, num_points,
\* classes_csv) over the points of the input table
GetArtificialSegments(segment, points, classes) ==
    LET rows == [i \in 1..Len(points) |->
                   LET best == BestSegment(segment, points[i], classes)
                   IN  IF best = NULL THEN << >>
                       ELSE SplitRows(SegmentById(segment, best), i)]
    IN  FlatMap(rows, [i \in 1..Len(points) |-> i])

\* ------------------------------------------------------------- read_network
ValidSegmentClasses(routing_type) ==
    IF routing_type = "walking"
    THEN VALID_WALKING_CLASSES
    ELSE VALID_BICYCLE_CLASSES

\* '{",".join(valid_segment_classes)}' as split again by the SQL function
ClassesCsv(valid_segment_classes) == Range(valid_segment_classes)

\* h3_3_cells: the GROUP BY keys of the rows of sql_get_relevant_cells
H3_3_Cells(h3_6_cells) == {H3Parent(c) : c \in h3_6_cells}

MissingShardIgnored(routing_network, h3_3_cells) == FALSE

\* routing_network.get(h3_3) is None for a cell of the envelope
MissingShard(routing_network, h3_3_cells) ==
    \E h3_3 \in h3_3_cells : h3_3 \notin DOMAIN routing_network

FilterShardByCellOnly(sub_df, h3_6_cells, valid_segment_classes) ==
    SelectSeq(sub_df, LAMBDA e : e.h3_6 \in h3_6_cells)

\* sub_df.filter(h3_6 in h3_6_cells & class_ in valid_segment_classes)
FilterShard(sub_df, h3_6_cells, valid_segment_classes) ==
    SelectSeq(sub_df, LAMBDA e : /\ e.h3_6 \in h3_6_cells
                                 /\ e.class_ \in Range(valid_segment_classes))

\* the filtered shards of the envelope, concatenated (reached only when no
\* shard is missing; an absent key contributes nothing)
RelevantSegments(routing_network, h3_6_cells, valid_segment_classes) ==
    LET h3_3_cells == H3_3_Cells(h3_6_cells)
        part == [h3_3 \in h3_3_cells |->
                   IF h3_3 \in DOMAIN routing_network
                   THEN FilterShard(routing_network[h3_3], h3_6_cells,
                                    valid_segment_classes)
                   ELSE << >>]
    IN  FlatMap(part, SortedSeq(h3_3_cells))

\* rows of the splicer that carry a point (a_seg[0] is not None)
PointRows(result) == SelectSeq(result, LAMBDA a_seg : a_seg.point_id # NULL)

\* origin_point_connectors: a_seg[10], the source column
OriginPointConnectors(result) ==
    [i \in 1..Len(PointRows(result)) |-> PointRows(result)[i].source]

OriginPointH3_10(result) ==
    [i \in 1..Len(PointRows(result)) |-> PointRows(result)[i].point_h3_10]

OriginPointH3_3(result) ==
    [i \in 1..Len(PointRows(result)) |-> PointRows(result)[i].point_h3_3]

SegmentsToDiscardNone(result) == << >>

\* segments_to_discard: a_seg[1], the old_id column
SegmentsToDiscard(result) ==
    [i \in 1..Len(PointRows(result)) |-> PointRows(result)[i].old_id]

\* new_df: the segment columns of one splicer row
NewDf(a_seg) ==
    [id |-> a_seg.id, length_m |-> a_seg.length_m, class_ |-> a_seg.class_,
     impedance_slope |-> a_seg.impedance_slope,
     impedance_slope_reverse |-> a_seg.impedance_slope_reverse,
     impedance_surface |-> a_seg.impedance_surface,
     source |-> a_seg.source, target |-> a_seg.target,
     h3_3 |-> a_seg.h3_3, h3_6 |-> a_seg.h3_6]

ExtendDropped(sub_network, result) == sub_network

\* sub_network.extend(new_df) for every row of the splicer
ExtendWithArtificial(sub_network, result) ==
    sub_network \o [i \in 1..Len(result) |-> NewDf(result[i])]

NotDisconnected(origin_point_connectors) == FALSE

\* len(origin_point_connectors) == 0
Disconnected(origin_point_connectors) == Len(origin_point_connectors) = 0

\* sub_network.filter(~id.is_in(segments_to_discard))
RemoveDiscarded(sub_network, segments_to_discard) ==
    SelectSeq(sub_network, LAMBDA e : e.id \notin Range(segments_to_discard))

\* pl.col(c).fill_null(0)
FillNull(v) == IF v = NULL THEN 0 ELSE v

FillNullImpedances(sub_network) ==
    [i \in 1..Len(sub_network) |->
        [sub_network[i] EXCEPT
            !.impedance_slope = FillNull(@),
            !.impedance_slope_reverse = FillNull(@),
            !.impedance_surface = FillNull(@)]]

\* (length_m * factor) / speed with speed = speed_kmh / 3.6, in milliseconds
Duration(length_m, factor, speed_kmh) ==
    (length_m * factor * 3600) \div speed_kmh

\* cost and reverse_cost of one segment
SegmentCost(e, mode, speed_kmh) ==
    CASE mode = "walking" ->
           [cost |-> Duration(e.length_m, 1, speed_kmh),
            reverse_cost |-> Duration(e.length_m, 1, speed_kmh)]
      [] mode = "bicycle" ->
           IF e.class_ # "pedestrian"
           THEN [cost |-> Duration(e.length_m,
                                   1 + e.impedance_slope + e.impedance_surface,
                                   speed_kmh),
                 reverse_cost |-> Duration(e.length_m,
                                   1 + e.impedance_slope_reverse + e.impedance_surface,
                                   speed_kmh)]
           ELSE [cost |-> Duration(e.length_m, 1, speed_kmh),
                 reverse_cost |-> Duration(e.length_m, 1, speed_kmh)]
      [] mode = "pedelec" ->
           IF e.class_ # "pedestrian"
           THEN [cost |-> Duration(e.length_m, 1 + e.impedance_surface, speed_kmh),
                 reverse_cost |-> Duration(e.length_m, 1 + e.impedance_surface,
                                           speed_kmh)]
           ELSE [cost |-> Duration(e.length_m, 1, speed_kmh),
                 reverse_cost |-> Duration(e.length_m, 1, speed_kmh)]

compute_segment_cost(sub_network, mode, speed_kmh) ==
    [i \in 1..Len(sub_network) |->
        sub_network[i] @@ SegmentCost(sub_network[i], mode, speed_kmh)]

\* lines 246-259: the cost columns by kind of travel cost
WithCost(sub_network, routing_type, travel_cost) ==
    IF travel_cost.kind = "time"
    THEN compute_segment_cost(sub_network, routing_type, travel_cost.speed)
    ELSE [i \in 1..Len(sub_network) |->
            sub_network[i] @@ [cost |-> sub_network[i].length_m,
                               reverse_cost |-> sub_network[i].length_m]]

Raised(error) ==
    [raised |-> error, returned |-> FALSE, sub_network |-> << >>,
     origin_point_connectors |-> << >>, origin_point_h3_10 |-> << >>,
     origin_point_h3_3 |-> << >>]

\* read_network(routing_network, obj_in, input_table, num_points); h3_6_cells
\* is the answer of sql_get_relevant_cells and segment the table that
\* temporal.get_artificial_segments reads
read_network(routing_network, obj_in, h3_6_cells, segment) ==
    LET valid_segment_classes == ValidSegmentClasses(obj_in.routing_type)
        result == GetArtificialSegments(segment, obj_in.starting_points,
                                        ClassesCsv(valid_segment_classes))
        spliced == ExtendWithArtificial(
                       RelevantSegments(routing_network, h3_6_cells,
                                        valid_segment_classes),
                       result)
    IN  IF MissingShard(routing_network, H3_3_Cells(h3_6_cells))
        THEN Raised("BufferExceedsNetworkError")
        ELSE IF Disconnected(OriginPointConnectors(result))
        THEN Raised("DisconnectedOriginError")
        ELSE [raised |-> "none", returned |-> TRUE,
              sub_network |->
                  WithCost(FillNullImpedances(
                               RemoveDiscarded(spliced, SegmentsToDiscard(result))),
                           obj_in.routing_type, obj_in.travel_cost),
              origin_point_connectors |-> OriginPointConnectors(result),
              origin_point_h3_10 |-> OriginPointH3_10(result),
              origin_point_h3_3 |-> OriginPointH3_3(result)]

FilterYieldsTheShard(h3_3) == h3_3

\* line 168: sub_df.filter yields a new DataFrame object (NULL: no object of
\* the routing network) and leaves the shard of h3_3 as it is
FilterObject(h3_3) == NULL

\* lines 172-175: the object that sub_network names after the loop, which is
\* the filter result of the first cell; the later cells extend it
SubNetworkObject(h3_3_cells) ==
    IF h3_3_cells = {} THEN NULL ELSE FilterObject(SortedSeq(h3_3_cells)[1])

\* the routing network after read_network: extend (lines 173 and 227)
\* changes in place the object that sub_network names; filter, with_columns
\* and pl.concat (lines 235-247 and compute_segment_cost) yield new objects
NetworkAfterRead(routing_network, obj_in, h3_6_cells, segment) ==
    LET h3_3_cells == H3_3_Cells(h3_6_cells)
        object == SubNetworkObject(h3_3_cells)
        valid_segment_classes == ValidSegmentClasses(obj_in.routing_type)
        result == GetArtificialSegments(segment, obj_in.starting_points,
                                        ClassesCsv(valid_segment_classes))
    IN  IF object = NULL \/ MissingShard(routing_network, h3_3_cells)
        THEN routing_network
        ELSE [routing_network EXCEPT ![object] =
                 ExtendWithArtificial(
                     RelevantSegments(routing_network, h3_6_cells,
                                      valid_segment_classes),
                     result)]

\* ------------------------------------------------ FetchRoutingNetwork.fetch
\* the shard of one H3-3 cell: SELECT ... FROM basic.segment WHERE h3_3 = k
Shard(segment, h3_3) == SelectSeq(segment, LAMBDA e : e.h3_3 = h3_3)

\* the routing network with the shards of the given cells loaded
LoadedNetwork(segment, h3_3_grid) == [k \in h3_3_grid |-> Shard(segment, k)]


\* ===================================================================== state
VARIABLES
    segment,           \* rows of basic.segment
    routing_network,   \* self.routing_network: [fetched, shards]
    obj_in,            \* the request being served
    h3_6_cells,        \* answer of sql_get_relevant_cells for it
    read_result,       \* what read_network returned or raised
    pc,                \* position of the worker in run
    redis,             \* processing status stored per layer_id
    tasks,             \* queue of run_catchment_area tasks (layer ids)
    response,          \* latest answer of compute_catchment_area
    uuid,              \* number of input tables named so far
    input_table,       \* name of the input table of this run, or NULL
    tables,            \* names of the tables that exist in schema temporal
    exc,               \* exception caught by run, "none" if none
    isochrone,         \* number of shapes / network features computed
    i,                 \* loop index of save_result / of the origins of a cell
    insert_string,     \* save_result: index of the first feature queued;
                       \* HeatmapMatrixProcess: the rows queued
    txn,               \* result rows executed but not committed
    result_table,      \* committed rows of the result table
    \* ---- HeatmapMatrixProcess
    chunk,                     \* self.chunk: the H3-6 cells of the worker
    index,                     \* loop index of run over the chunk
    origin_point_cell_index,   \* origins of the cell, as read_network gave them
    distances_list,            \* what the routing of the cell reached
    h3_index,                  \* destination cells of get_cell_grid
    mapped_cost,               \* costs of the destinations for one origin
    num_rows_queued,           \* self.num_rows_queued
    matrix,                    \* committed INSERTs of the matrix table
    queued,                    \* every row add_to_insert_string has queued
    log,                       \* what print_error has printed
    \* ---- HeatmapMatrixPreparation.split_cells_into_chunks
    cells_to_process,
    NUM_THREADS,
    chunks,
    \* ---- FetchRoutingNetwork.fetch, one run per process
    files,             \* CACHE_DIR: state of <key>.parquet per H3-3 key
    fetch,             \* per process: position, index, segments_df
    selects,           \* shard SELECTs executed, as << process, run, key >>
    \* ---- compute_motis_request
    upstream,          \* what the GET of MOTIS_PLAN_ENDPOINT yields
    motis_response,    \* the answer of the endpoint to its client
    \* ---- HeatmapMatrixPreparation.run and its pool of worker processes
    matrix_table,      \* the committed traveltime matrix table: absent, old, new
    workers,           \* per chunk id: state of the process and index in its chunk
    inserted,          \* rows of the executed INSERTs, with the worker's id
    \* ---- compute_catchment_area in several server processes
    api,               \* per server process: position, layer_id, processing_status
    delayed            \* per layer id: calls of run_catchment_area.delay so far

heatmapVars == << chunk, index, origin_point_cell_index, distances_list,
                  h3_index, mapped_cost, num_rows_queued, matrix, queued, log >>

splitVars == << cells_to_process, NUM_THREADS, chunks >>

cacheVars == << files, fetch, selects >>

motisVars == << upstream, motis_response >>

\* the state of the operations that no action of the request layer touches
prepVars == << matrix_table, workers, inserted >>

apiVars == << api, delayed >>

serviceVars == << motisVars, prepVars, apiVars >>

vars == << segment, routing_network, obj_in, h3_6_cells, read_result, pc,
           redis, tasks, response, uuid, input_table, tables, exc, isochrone,
           i, insert_string, txn, result_table, heatmapVars, splitVars,
           cacheVars, serviceVars >>

runVars == << redis, tasks, response, uuid, input_table, tables, exc,
              isochrone, i, insert_string, txn, result_table >>

\* ------------------------------------------------------------- shared values
\* layer ids that clients ask for
LayerIds == {1, 2}

NotFetched == [fetched |-> FALSE, shards |-> << >>]
Fetched(shards) == [fetched |-> TRUE, shards |-> shards]

NoRequest == [layer_id |-> NULL]
NotRead == Raised("not_called")

Request(layer_id, routing_type, travel_cost, isochrone_type, starting_points) ==
    [layer_id |-> layer_id, routing_type |-> routing_type,
     travel_cost |-> travel_cost, isochrone_type |-> isochrone_type,
     starting_points |-> starting_points]

\* h3_3_grid of fetch: the cells of the region, in the order of the query
H3_3_Grid == SortedSeq(RegionH3_3)

\* H3-6 cells along a line through the region; the buffer around the
\* starting points covers the first `radius` of them
CellLine == SortedSeq(AllH3_6)
Envelope(radius) == {CellLine[k] : k \in 1..radius}
Envelopes == {Envelope(radius) : radius \in 1..Len(CellLine)}

\* the shards held after fetch loaded the first n cells of the grid (an
\* exception in the loop is printed and ends the loading)
FetchResult(n) ==
    Fetched(LoadedNetwork(segment, {H3_3_Grid[k] : k \in 1..n}))

\* ================================================================== SpecRead
\* read_network applied to bounded inputs

\* the attributes of segment 1 vary, one starting point on it
InitCostInputs ==
    /\ \E class_ \in ClassSample, length_m \in {0, MaxLen},
          slope \in ImpedanceValues, slope_rev \in ImpedanceValues,
          surface \in ImpedanceValues :
          segment = SegmentTable(class_, length_m, slope, slope_rev, surface)
    /\ \E routing_type \in RoutingActiveMobilityType, travel_cost \in TravelCosts :
          obj_in = Request(1, routing_type, travel_cost, "polygon", << << 1 >> >>)
    /\ h3_6_cells = Envelope(Len(CellLine) - 1)
    /\ routing_network = FetchResult(Len(H3_3_Grid))

\* the starting points, the envelope and the loaded shards vary
InitNetworkInputs ==
    /\ \E class_ \in ClassSample : segment = SegmentTable(class_, MaxLen, 0, 0, 0)
    /\ \E routing_type \in RoutingActiveMobilityType, travel_cost \in TravelCosts,
          starting_points \in StartingPoints :
          obj_in = Request(1, routing_type, travel_cost, "polygon", starting_points)
    /\ h3_6_cells \in Envelopes
    /\ \E n \in 0..Len(H3_3_Grid) : routing_network = FetchResult(n)

\* no heatmap worker, no split and no fetch process is under way
InitHeatmapIdle ==
    /\ chunk = << >>
    /\ index = 0
    /\ origin_point_cell_index = << >>
    /\ distances_list = "none"
    /\ h3_index = << >>
    /\ mapped_cost = << >>
    /\ num_rows_queued = 0
    /\ matrix = << >>
    /\ queued = << >>
    /\ log = << >>

InitSplitIdle ==
    /\ cells_to_process = << >>
    /\ NUM_THREADS = 1
    /\ chunks = << >>

InitCacheIdle ==
    /\ files = << >>
    /\ fetch = << >>
    /\ selects = {}

\* no call of the planner endpoint is under way
InitMotisIdle ==
    /\ upstream = "none"
    /\ motis_response = "none"

\* no matrix preparation is under way
InitPrepIdle ==
    /\ matrix_table = "absent"
    /\ workers = << >>
    /\ inserted = {}

\* no server process is inside compute_catchment_area
InitApiIdle ==
    /\ api = << >>
    /\ delayed = << >>

InitServiceIdle == InitMotisIdle /\ InitPrepIdle /\ InitApiIdle

InitRun ==
    /\ redis = [l \in LayerIds |-> "nil"]
    /\ tasks = << >>
    /\ response = [layer_id |-> NULL, status_code |-> NULL]
    /\ uuid = 0
    /\ input_table = NULL
    /\ tables = {}
    /\ exc = "none"
    /\ isochrone = 0
    /\ i = 0
    /\ insert_string = 0
    /\ txn = << >>
    /\ result_table = << >>

InitRead ==
    /\ InitCostInputs \/ InitNetworkInputs
    /\ read_result = NotRead
    /\ pc = "read"
    /\ InitRun
    /\ InitHeatmapIdle
    /\ InitSplitIdle
    /\ InitCacheIdle
    /\ InitServiceIdle

ApplyReadNetwork ==
    /\ pc = "read"
    /\ read_result' = read_network(routing_network.shards, obj_in, h3_6_cells, segment)
    /\ routing_network' =
          [routing_network EXCEPT !.shards =
              NetworkAfterRead(routing_network.shards, obj_in, h3_6_cells, segment)]
    /\ pc' = "read_done"
    /\ UNCHANGED << heatmapVars, splitVars, cacheVars, serviceVars, segment, obj_in, h3_6_cells >>
    /\ UNCHANGED runVars

NextRead == ApplyReadNetwork

SpecRead == InitRead /\ [][NextRead]_vars


\* ====================================================================== Spec
\* the request layer and the worker that serves run_catchment_area tasks

\* ProcessingStatus, and "nil" for a key that redis does not hold
ProcessingStatus == {"in_progress", "success", "failure", "disconnected_origin"}

\* batch_size of save_result
batch_size == 1000

\* numbers of shapes or network features that a computation yields
FeatureCounts == {0, 2, batch_size + 2}

\* the requests that the worker is given: one starting point, far from
\* every segment or closest to the footway
RunRequests(layer_id) ==
    {Request(layer_id, routing_type, TimeCost(MaxSpeed), isochrone_type, << near >>) :
        routing_type \in {"walking", "bicycle"},
        isochrone_type \in IsochroneType,
        near \in {<< >>, << 2, 1 >>}}

\* answers of sql_get_relevant_cells: a buffer inside the region and one
\* that crosses its border
RunEnvelopes == {Envelope(2), Envelope(Len(CellLine))}

Init ==
    /\ segment = DefaultSegments
    /\ routing_network = NotFetched
    /\ obj_in = NoRequest
    /\ h3_6_cells = {}
    /\ read_result = NotRead
    /\ pc = "idle"
    /\ InitRun
    /\ InitHeatmapIdle
    /\ InitSplitIdle
    /\ InitCacheIdle
    /\ InitServiceIdle

\* status code of the JSONResponse for a stored processing status
StatusCode(processing_status) ==
    CASE processing_status = "nil" -> 202
      [] processing_status = "in_progress" -> 202
      [] processing_status = "success" -> 201
      [] processing_status = "disconnected_origin" -> 400
      [] OTHER -> 500

\* POST .../catchment-area for a layer id
compute_catchment_area(layer_id) ==
    /\ IF redis[layer_id] = "nil"
       THEN /\ redis' = [redis EXCEPT ![layer_id] = "in_progress"]
            /\ tasks' = Append(tasks, layer_id)
       ELSE UNCHANGED << redis, tasks >>
    /\ response' = [layer_id |-> layer_id,
                    status_code |-> StatusCode(redis[layer_id])]
    /\ UNCHANGED << heatmapVars, splitVars, cacheVars, serviceVars, segment, routing_network, obj_in, h3_6_cells, read_result,
                    pc, uuid, input_table, tables, exc, isochrone, i,
                    insert_string, txn, result_table >>

\* the celery worker takes the next task and enters run(params)
run_catchment_area ==
    /\ pc = "idle"
    /\ tasks # << >>
    /\ obj_in' = [layer_id |-> Head(tasks)]
    /\ tasks' = Tail(tasks)
    /\ pc' = "fetch"
    /\ UNCHANGED << heatmapVars, splitVars, cacheVars, serviceVars, segment, routing_network, h3_6_cells, read_result, redis,
                    response, uuid, input_table, tables, exc, isochrone, i,
                    insert_string, txn, result_table >>

\* lines 431-434: fetch the routing network unless it is held already
FetchRoutingNetwork ==
    /\ pc = "fetch"
    /\ IF routing_network.fetched
       THEN UNCHANGED routing_network
       ELSE \E n \in 0..Len(H3_3_Grid) : routing_network' = FetchResult(n)
    /\ pc' = "parse"
    /\ UNCHANGED << heatmapVars, splitVars, cacheVars, serviceVars, segment, obj_in, h3_6_cells, read_result >>
    /\ UNCHANGED runVars

\* line 438: obj_in = IIsochroneActiveMobility(**obj_in)
ParseRequest ==
    /\ pc = "parse"
    /\ obj_in' \in RunRequests(obj_in.layer_id)
    /\ pc' = "create"
    /\ UNCHANGED << heatmapVars, splitVars, cacheVars, serviceVars, segment, routing_network, h3_6_cells, read_result >>
    /\ UNCHANGED runVars

\* line 438 raises a validation error, which run does not catch
ParseRequestFails ==
    /\ pc = "parse"
    /\ pc' = "raised"
    /\ UNCHANGED << heatmapVars, splitVars, cacheVars, serviceVars, segment, routing_network, obj_in, h3_6_cells, read_result >>
    /\ UNCHANGED runVars

\* create_input_table: CREATE TABLE, INSERT, commit
create_input_table ==
    /\ pc = "create"
    /\ uuid' = uuid + 1
    /\ input_table' = uuid + 1
    /\ tables' = tables \cup {uuid + 1}
    /\ pc' = "read"
    /\ UNCHANGED << heatmapVars, splitVars, cacheVars, serviceVars, segment, routing_network, obj_in, h3_6_cells, read_result,
                    redis, tasks, response, exc, isochrone, i, insert_string,
                    txn, result_table >>

\* a statement of create_input_table fails: nothing is committed
create_input_table_fails ==
    /\ pc = "create"
    /\ exc' = "Exception"
    /\ pc' = "except"
    /\ UNCHANGED << heatmapVars, splitVars, cacheVars, serviceVars, segment, routing_network, obj_in, h3_6_cells, read_result,
                    redis, tasks, response, uuid, input_table, tables,
                    isochrone, i, insert_string, txn, result_table >>

\* lines 449-454: read_network returns or raises one of its two errors
ReadNetwork ==
    /\ pc = "read"
    /\ \E cells \in RunEnvelopes :
          LET r == read_network(routing_network.shards, obj_in, cells, segment)
          IN  /\ h3_6_cells' = cells
              /\ read_result' = r
              /\ exc' = r.raised
              /\ routing_network' =
                    [routing_network EXCEPT !.shards =
                        NetworkAfterRead(routing_network.shards, obj_in, cells, segment)]
              /\ pc' = IF r.returned THEN "delete" ELSE "except"
    /\ UNCHANGED << heatmapVars, splitVars, cacheVars, serviceVars, segment, obj_in, redis, tasks, response,
                    uuid, input_table, tables, isochrone, i, insert_string,
                    txn, result_table >>

\* one of the two queries of read_network fails in the database
ReadNetworkFails ==
    /\ pc = "read"
    /\ read_result' = Raised("Exception")
    /\ exc' = "Exception"
    /\ pc' = "except"
    /\ UNCHANGED << heatmapVars, splitVars, cacheVars, serviceVars, segment, routing_network, obj_in, h3_6_cells, redis, tasks,
                    response, uuid, input_table, tables, isochrone, i,
                    insert_string, txn, result_table >>

\* delete_input_table: DROP TABLE, commit
delete_input_table ==
    /\ pc = "delete"
    /\ tables' = tables \ {input_table}
    /\ pc' = "compute"
    /\ UNCHANGED << heatmapVars, splitVars, cacheVars, serviceVars, segment, routing_network, obj_in, h3_6_cells, read_result,
                    redis, tasks, response, uuid, input_table, exc, isochrone,
                    i, insert_string, txn, result_table >>

delete_input_table_fails ==
    /\ pc = "delete"
    /\ exc' = "Exception"
    /\ pc' = "except"
    /\ UNCHANGED << heatmapVars, splitVars, cacheVars, serviceVars, segment, routing_network, obj_in, h3_6_cells, read_result,
                    redis, tasks, response, uuid, input_table, tables,
                    isochrone, i, insert_string, txn, result_table >>

\* line 459: the handler of the read phase first stores failure
ReadExceptSetFailure ==
    /\ pc = "except"
    /\ redis' = [redis EXCEPT ![obj_in.layer_id] = "failure"]
    /\ pc' = "except_rollback"
    /\ UNCHANGED << heatmapVars, splitVars, cacheVars, serviceVars, segment, routing_network, obj_in, h3_6_cells, read_result,
                    tasks, response, uuid, input_table, tables, exc, isochrone,
                    i, insert_string, txn, result_table >>

StatusAfterReadFailureAlwaysFailure(e) == "failure"

\* lines 461-464: the status that the handler leaves for exception e
StatusAfterReadFailure(e) ==
    IF e = "DisconnectedOriginError" THEN "disconnected_origin" ELSE "failure"

\* lines 460-466: rollback, the status of a disconnected origin, return
ReadExceptRollback ==
    /\ pc = "except_rollback"
    /\ txn' = << >>
    /\ redis' = [redis EXCEPT ![obj_in.layer_id] = StatusAfterReadFailure(exc)]
    /\ pc' = "returned"
    /\ UNCHANGED << heatmapVars, splitVars, cacheVars, serviceVars, segment, routing_network, obj_in, h3_6_cells, read_result,
                    tasks, response, uuid, input_table, tables, exc, isochrone,
                    i, insert_string, result_table >>

\* lines 474-510: compute_isochrone and generate_jsolines
ComputeIsochrone ==
    /\ pc = "compute"
    /\ isochrone' \in FeatureCounts
    /\ pc' = "save"
    /\ UNCHANGED << heatmapVars, splitVars, cacheVars, serviceVars, segment, routing_network, obj_in, h3_6_cells, read_result,
                    redis, tasks, response, uuid, input_table, tables, exc,
                    i, insert_string, txn, result_table >>

\* lines 511-514
ComputeIsochroneFails ==
    /\ pc = "compute"
    /\ exc' = "Exception"
    /\ redis' = [redis EXCEPT ![obj_in.layer_id] = "failure"]
    /\ pc' = "returned"
    /\ UNCHANGED << heatmapVars, splitVars, cacheVars, serviceVars, segment, routing_network, obj_in, h3_6_cells, read_result,
                    tasks, response, uuid, input_table, tables, isochrone,
                    i, insert_string, txn, result_table >>

\* one INSERT statement: the features first..last of a layer
Statement(layer_id, first, last) ==
    [layer_id |-> layer_id, first |-> first, last |-> last]

\* the loop test of line 413 at index k of n features
FlushAt(k, n) == k % batch_size = 0 \/ k = n - 1

\* the first index from k on at which the loop of save_result executes
NextFlush(k, n) ==
    LET flushes == {j \in k..(n - 1) : FlushAt(j, n)}
    IN  CHOOSE j \in flushes : \A m \in flushes : j <= m

\* lines 382-396: the single INSERT of the shapes (an empty VALUES list is
\* a syntax error and is covered by SaveResultFails)
SavePolygonExecute ==
    /\ pc = "save"
    /\ obj_in.isochrone_type = "polygon"
    /\ i = 0
    /\ isochrone > 0
    /\ txn' = Append(txn, Statement(obj_in.layer_id, 0, isochrone - 1))
    /\ i' = isochrone
    /\ pc' = "save_commit"
    /\ UNCHANGED << heatmapVars, splitVars, cacheVars, serviceVars, segment, routing_network, obj_in, h3_6_cells, read_result,
                    redis, tasks, response, uuid, input_table, tables, exc,
                    isochrone, insert_string, result_table >>

\* lines 402-418: the loop runs up to the next index at which it executes
\* the INSERT of the features queued in insert_string
SaveNetworkExecute ==
    /\ pc = "save"
    /\ obj_in.isochrone_type = "network"
    /\ i < isochrone
    /\ LET k == NextFlush(i, isochrone)
       IN  /\ txn' = Append(txn, Statement(obj_in.layer_id, insert_string, k))
           /\ i' = k + 1
    /\ pc' = "save_commit"
    /\ UNCHANGED << heatmapVars, splitVars, cacheVars, serviceVars, segment, routing_network, obj_in, h3_6_cells, read_result,
                    redis, tasks, response, uuid, input_table, tables, exc,
                    isochrone, insert_string, result_table >>

CommitDropped(table, statements) == table

\* db_connection.commit(): the executed rows become rows of the table
Commit(table, statements) == table \o statements

\* lines 397 and 419-420
SaveCommit ==
    /\ pc = "save_commit"
    /\ result_table' = Commit(result_table, txn)
    /\ txn' = << >>
    /\ insert_string' = i
    /\ pc' = "save"
    /\ UNCHANGED << heatmapVars, splitVars, cacheVars, serviceVars, segment, routing_network, obj_in, h3_6_cells, read_result,
                    redis, tasks, response, uuid, input_table, tables, exc,
                    isochrone, i >>

\* save_result returns: nothing is left to insert
SaveResultDone ==
    /\ pc = "save"
    /\ \/ obj_in.isochrone_type = "rectangular_grid"
       \/ obj_in.isochrone_type # "rectangular_grid" /\ i >= isochrone /\ i > 0
       \/ obj_in.isochrone_type = "network" /\ isochrone = 0
    /\ pc' = "success"
    /\ UNCHANGED << heatmapVars, splitVars, cacheVars, serviceVars, segment, routing_network, obj_in, h3_6_cells, read_result >>
    /\ UNCHANGED runVars

\* an execute or a commit of save_result raises
SaveResultFails ==
    /\ \/ pc = "save_commit"
       \/ /\ pc = "save"
          /\ obj_in.isochrone_type = "network"
          /\ i < isochrone
       \/ /\ pc = "save"
          /\ obj_in.isochrone_type = "polygon"
          /\ i = 0
    /\ exc' = "Exception"
    /\ pc' = "save_except"
    /\ UNCHANGED << heatmapVars, splitVars, cacheVars, serviceVars, segment, routing_network, obj_in, h3_6_cells, read_result,
                    redis, tasks, response, uuid, input_table, tables,
                    isochrone, i, insert_string, txn, result_table >>

\* lines 523-527
SaveResultExcept ==
    /\ pc = "save_except"
    /\ redis' = [redis EXCEPT ![obj_in.layer_id] = "failure"]
    /\ txn' = << >>
    /\ pc' = "returned"
    /\ UNCHANGED << heatmapVars, splitVars, cacheVars, serviceVars, segment, routing_network, obj_in, h3_6_cells, read_result,
                    tasks, response, uuid, input_table, tables, exc, isochrone,
                    i, insert_string, result_table >>

\* line 532
SetSuccess ==
    /\ pc = "success"
    /\ redis' = [redis EXCEPT ![obj_in.layer_id] = "success"]
    /\ pc' = "returned"
    /\ UNCHANGED << heatmapVars, splitVars, cacheVars, serviceVars, segment, routing_network, obj_in, h3_6_cells, read_result,
                    tasks, response, uuid, input_table, tables, exc, isochrone,
                    i, insert_string, txn, result_table >>

\* run has returned or raised: the task is over and its locals are gone
TaskDone ==
    /\ pc \in {"returned", "raised"}
    /\ pc' = "idle"
    /\ obj_in' = NoRequest
    /\ h3_6_cells' = {}
    /\ read_result' = NotRead
    /\ exc' = "none"
    /\ input_table' = NULL
    /\ isochrone' = 0
    /\ i' = 0
    /\ insert_string' = 0
    /\ UNCHANGED << heatmapVars, splitVars, cacheVars, serviceVars, segment, routing_network, redis, tasks, response, uuid,
                    tables, txn, result_table >>

Next ==
    \/ \E layer_id \in LayerIds : compute_catchment_area(layer_id)
    \/ run_catchment_area
    \/ FetchRoutingNetwork
    \/ ParseRequest
    \/ ParseRequestFails
    \/ create_input_table
    \/ create_input_table_fails
    \/ ReadNetwork
    \/ ReadNetworkFails
    \/ delete_input_table
    \/ delete_input_table_fails
    \/ ReadExceptSetFailure
    \/ ReadExceptRollback
    \/ ComputeIsochrone
    \/ ComputeIsochroneFails
    \/ SavePolygonExecute
    \/ SaveNetworkExecute
    \/ SaveCommit
    \/ SaveResultDone
    \/ SaveResultFails
    \/ SaveResultExcept
    \/ SetSuccess
    \/ TaskDone

Spec == Init /\ [][Next]_vars

\* =============================================================== claims on run
\* run has ended, by a return statement or by the end of its body
RunReturned == pc = "returned"

\* run has ended after one of its three handlers caught an exception
RunFailed == RunReturned /\ exc # "none"

RowsOfLayer(table, layer_id) ==
    {k \in 1..Len(table) : table[k].layer_id = layer_id}

\* C1: when run returns after create_input_table succeeded, the input
\* table of the run no longer exists, whether read_network returned or raised.
C1_InputTableDropped ==
    (RunReturned /\ input_table # NULL) => input_table \notin tables

\* C2: when a step of run failed, the result table holds no row of the
\* request after run has returned.
C2_NoPartialResultRows ==
    RunFailed => RowsOfLayer(result_table, obj_in.layer_id) = {}

C4_BufferExceedsAnswered4xx ==
    (RunFailed /\ exc = "BufferExceedsNetworkError")
        => StatusCode(redis[obj_in.layer_id]) \in 400..499

\* ======================================================= claims on read_network
ReadCalled == read_result.raised # "not_called"

\* the rows the splicer returns for the request
SplicerRows ==
    GetArtificialSegments(segment, obj_in.starting_points,
                          ClassesCsv(ValidSegmentClasses(obj_in.routing_type)))

\* an H3-3 cell of the envelope has no entry in the routing network
EnvelopeExceedsNetwork ==
    \E c \in h3_6_cells : H3Parent(c) \notin DOMAIN routing_network.shards

SubNetworkRows == Range(read_result.sub_network)

\* allowed class sets by mode, as the design document lists them: walking,
\* and bicycle/pedelec = walking minus {footway, steps} plus {cycleway}
WalkingClasses ==
    {"secondary", "tertiary", "residential", "livingStreet", "trunk",
     "unclassified", "parkingAisle", "driveway", "pedestrian", "footway",
     "steps", "track", "bridleway", "unknown"}

AllowedClasses(mode) ==
    IF mode = "walking" THEN WalkingClasses
    ELSE (WalkingClasses \ {"footway", "steps"}) \cup {"cycleway"}

\* C5: when the splicer was called and produced no artificial edge,
\* read_network raises DisconnectedOriginError and returns no sub-network.
C5_NoArtificialEdgeRaisesDisconnected ==
    (ReadCalled /\ ~EnvelopeExceedsNetwork /\ SplicerRows = << >>)
        => /\ read_result.raised = "DisconnectedOriginError"
           /\ ~read_result.returned
           /\ read_result.sub_network = << >>

C5_Witness ==
    /\ ReadCalled /\ ~EnvelopeExceedsNetwork /\ SplicerRows = << >>
    /\ Len(obj_in.starting_points) = MaxPoints
    /\ read_result.raised = "DisconnectedOriginError"

\* C6: when an H3-3 cell of the envelope has no entry in the routing
\* network, read_network raises BufferExceedsNetworkError and returns no
\* sub-network, also when other shards of the envelope are present.
C6_MissingShardRaisesBufferExceeds ==
    (ReadCalled /\ EnvelopeExceedsNetwork)
        => /\ read_result.raised = "BufferExceedsNetworkError"
           /\ ~read_result.returned
           /\ read_result.sub_network = << >>

C6_Witness ==
    /\ ReadCalled /\ EnvelopeExceedsNetwork
    /\ \E c \in h3_6_cells : H3Parent(c) \in DOMAIN routing_network.shards
    /\ SplicerRows # << >>
    /\ read_result.raised = "BufferExceedsNetworkError"

C8_NoSupersededEdge ==
    read_result.returned
        => \A a_seg \in Range(SplicerRows) :
              \A e \in SubNetworkRows : e.id # a_seg.old_id

C8_Witness ==
    /\ read_result.returned
    /\ \E a_seg \in Range(SplicerRows) :
          \E e \in Range(RelevantSegments(routing_network.shards, h3_6_cells,
                                          ValidSegmentClasses(obj_in.routing_type))) :
              e.id = a_seg.old_id

\* C9: every returned origin connector is the source or the target of an
\* artificial edge that is in the returned sub-network.
C9_ConnectorOnArtificialEdge ==
    read_result.returned
        => \A c \in Range(read_result.origin_point_connectors) :
              \E e \in SubNetworkRows :
                  /\ \E a_seg \in Range(SplicerRows) : a_seg.id = e.id
                  /\ (e.source = c \/ e.target = c)

C9_Witness ==
    /\ read_result.returned
    /\ Len(read_result.origin_point_connectors) = MaxPoints
    /\ \E a_seg \in Range(SplicerRows) :
          \E e \in Range(RelevantSegments(routing_network.shards, h3_6_cells,
                                          ValidSegmentClasses(obj_in.routing_type))) :
              e.id = a_seg.old_id

\* C10: every edge of the returned sub-network has cost >= 0 and
\* reverse_cost >= 0, whatever the mode and the stored impedances.
C10_CostsNonNegative ==
    read_result.returned
        => \A e \in SubNetworkRows : e.cost >= 0 /\ e.reverse_cost >= 0

\* ============================================== HeatmapMatrixProcess, rows
\* the request layer is idle and holds nothing
InitRequestLayerIdle ==
    /\ segment = DefaultSegments
    /\ routing_network = NotFetched
    /\ obj_in = NoRequest
    /\ h3_6_cells = {}
    /\ read_result = NotRead
    /\ redis = [l \in LayerIds |-> "nil"]
    /\ tasks = << >>
    /\ response = [layer_id |-> NULL, status_code |-> NULL]
    /\ uuid = 0
    /\ input_table = NULL
    /\ tables = {}
    /\ exc = "none"
    /\ isochrone = 0
    /\ txn = << >>
    /\ result_table = << >>

requestLayerVars == << segment, routing_network, obj_in, h3_6_cells, read_result,
                       redis, tasks, response, uuid, input_table, tables, exc,
                       isochrone, txn, result_table, serviceVars >>

\* ROUTING_COST_CONFIG and MATRIX_RESOLUTION_CONFIG of the heatmap
ROUTING_COST_CONFIG ==
    [walking |-> [max_traveltime |-> 30, steps |-> 30, speed |-> 5],
     bicycle |-> [max_traveltime |-> 30, steps |-> 30, speed |-> 15],
     pedelec |-> [max_traveltime |-> 30, steps |-> 30, speed |-> 23],
     car     |-> [max_traveltime |-> 60, steps |-> 60]]

INSERT_BATCH_SIZE == 800

\* a cost is a float of minutes, held here in tenths of a minute; NaN is
\* the cost of a cell that was not reached
NaN == -1

\* int(costs[i]) of a cost that is not NaN
int(cost) == cost \div 10

SkippedNever(cost) == FALSE

\* the test of the loop that leaves a destination out of cost_map
Skipped(cost) == cost = NaN \/ int(cost) = 0

\* indexes of the destinations that the loop files under a cost
CostMapIndexes(costs, cost) ==
    {k \in 1..Len(costs) : ~Skipped(costs[k]) /\ int(costs[k]) = cost}

\* the k-th smallest element of a set of numbers
Nth(S, k) == CHOOSE x \in S : Cardinality({y \in S : y < x}) = k - 1

\* smallest element of a non-empty set of numbers
Min(S) == Nth(S, 1)

\* keys of cost_map in insertion order: by the first destination of each
CostMapKeys(costs) ==
    LET costs_kept == {int(costs[k]) : k \in {j \in 1..Len(costs) : ~Skipped(costs[j])}}
        first == {Min(CostMapIndexes(costs, cost)) : cost \in costs_kept}
    IN  [k \in 1..Cardinality(costs_kept) |-> int(costs[Nth(first, k)])]

\* cost_map[cost]: the destinations with that cost, in the order of dest_id
CostMapList(dest_id, costs, cost) ==
    LET indexes == CostMapIndexes(costs, cost)
    IN  [k \in 1..Cardinality(indexes) |-> dest_id[Nth(indexes, k)]]

CostMap(dest_id, costs) ==
    LET keys == CostMapKeys(costs)
    IN  [keys |-> keys,
         list |-> [cost \in Range(keys) |-> CostMapList(dest_id, costs, cost)]]

\* the origin cell is put into cost_map[1]
EnsureOriginDropped(cost_map, orig_id) == cost_map

EnsureOrigin(cost_map, orig_id) ==
    IF 1 \notin Range(cost_map.keys)
    THEN [keys |-> Append(cost_map.keys, 1),
          list |-> [cost \in Range(cost_map.keys) \cup {1} |->
                       IF cost = 1 THEN << orig_id >> ELSE cost_map.list[cost]]]
    ELSE IF orig_id \notin Range(cost_map.list[1])
    THEN [cost_map EXCEPT !.list[1] = Append(@, orig_id)]
    ELSE cost_map

MatrixRow(orig_id, dest_id, traveltime, h3_3) ==
    [orig_id |-> orig_id, dest_id |-> dest_id, traveltime |-> traveltime,
     h3_3 |-> h3_3]

\* the rows appended to the insert string, one per key of cost_map
NewRows(orig_id, dest_id, costs, orig_h3_3) ==
    LET cost_map == EnsureOrigin(CostMap(dest_id, costs), orig_id)
    IN  [k \in 1..Len(cost_map.keys) |->
            MatrixRow(orig_id, cost_map.list[cost_map.keys[k]],
                      cost_map.keys[k], orig_h3_3)]

\* add_to_insert_string: the insert string and the row count after the call
add_to_insert_string(string, rows_queued, orig_id, dest_id, costs, orig_h3_3) ==
    LET rows == NewRows(orig_id, dest_id, costs, orig_h3_3)
    IN  [insert_string |-> string \o rows,
         num_rows_queued |-> rows_queued + Len(rows)]

\* ---------------------------------------------------------------- SpecAdd
\* add_to_insert_string applied to bounded cost arrays

MaxDest == 3

\* destination cells of the grid, at the matrix resolution
DestCells == [k \in 1..MaxDest |-> 100 + k]

\* costs that network_to_grid_h3 yields for a walking request: NaN or a
\* cost within max_traveltime
CostSample == {NaN, 0, 9, 10, 15, 20, ROUTING_COST_CONFIG.walking.max_traveltime * 10}

\* h3_3 of an origin cell
OrigH3_3(orig_id) == orig_id \div 100

InitAdd ==
    /\ InitRequestLayerIdle
    /\ InitServiceIdle
    /\ InitSplitIdle
    /\ InitCacheIdle
    /\ chunk = << >>
    /\ index = 0
    /\ \E orig_id \in {DestCells[1], 100 + MaxDest + 1} :
          origin_point_cell_index = << orig_id >>
    /\ distances_list = "none"
    /\ h3_index = DestCells
    /\ mapped_cost \in [1..MaxDest -> CostSample]
    /\ i = 1
    /\ insert_string = << >>
    /\ num_rows_queued = 0
    /\ matrix = << >>
    /\ queued = << >>
    /\ log = << >>
    /\ pc = "add"

ApplyAddToInsertString ==
    /\ pc = "add"
    /\ LET orig_id == origin_point_cell_index[i]
           added == add_to_insert_string(insert_string, num_rows_queued, orig_id,
                                         h3_index, mapped_cost, OrigH3_3(orig_id))
       IN  /\ insert_string' = added.insert_string
           /\ num_rows_queued' = added.num_rows_queued
           /\ queued' = added.insert_string
    /\ pc' = "add_done"
    /\ UNCHANGED << chunk, index, origin_point_cell_index, distances_list,
                    h3_index, mapped_cost, matrix, log, i >>
    /\ UNCHANGED << requestLayerVars, splitVars, cacheVars >>

NextAdd == ApplyAddToInsertString

SpecAdd == InitAdd /\ [][NextAdd]_vars

\* ------------------------------------------- claims on add_to_insert_string
AddCalled == pc = "add_done"

\* rows of the insert string queued for an origin with a traveltime
RowsAt(orig_id, traveltime) ==
    {k \in 1..Len(insert_string) :
        /\ insert_string[k].orig_id = orig_id
        /\ insert_string[k].traveltime = traveltime}

\* C13: after add_to_insert_string, the rows queued for the origin hold
\* exactly one row with traveltime 1, and its destinations contain the
\* origin cell.
C13_OriginRowAtOne ==
    AddCalled =>
        LET orig_id == origin_point_cell_index[i]
        IN  /\ Cardinality(RowsAt(orig_id, 1)) = 1
            /\ \A k \in RowsAt(orig_id, 1) :
                  orig_id \in Range(insert_string[k].dest_id)

\* the origin is a cell of the grid with integer cost 0, and another cell
\* has integer cost 1
C13_Witness ==
    /\ AddCalled
    /\ origin_point_cell_index[i] = h3_index[1]
    /\ mapped_cost[1] = 0
    /\ \E k \in 2..Len(h3_index) : mapped_cost[k] # NaN /\ int(mapped_cost[k]) = 1
    /\ \E k \in RowsAt(origin_point_cell_index[i], 1) :
          Len(insert_string[k].dest_id) >= 2

ChunkSample == {<< 1 >>, << 2, 1 >>, << 1, 2, 3 >>}

\* children of an H3-6 cell at the matrix resolution: the origins of the
\* cell's request and the destinations of its grid
ChildCell(h3_6_index, k) == h3_6_index * 100 + k

\* origin_point_cell_index as read_network returns it for n origins
OriginCells(h3_6_index, n) == [k \in 1..n |-> ChildCell(h3_6_index, k)]

\* get_cell_grid: the buffered grid of destination cells of a cell
get_cell_grid(h3_6_index) ==
    [k \in 1..ROUTING_COST_CONFIG.walking.max_traveltime |->
        ChildCell(h3_6_index, k)]

\* what the routing of a cell yields: the number of its origins and how
\* far its network reaches. With the whole grid reached, an origin has a
\* row for each minute up to max_traveltime; 28 such origins queue more
\* rows than one batch holds.
CellResults ==
    {[origins |-> 1, distances_list |-> "unreached"],
     [origins |-> 2, distances_list |-> "reached"],
     [origins |-> 28, distances_list |-> "reached"]}

\* network_to_grid_h3: the costs of the destination cells for one origin,
\* NaN where nothing is reached, else the k-th cell at k minutes
network_to_grid_h3(distances, dest_id) ==
    [k \in 1..Len(dest_id) |-> IF distances = "reached" THEN k * 10 ELSE NaN]

\* the test that commits the current batch
FlushOnlyWhenFull(rows_queued, origin, origins) ==
    rows_queued >= INSERT_BATCH_SIZE

Flush(rows_queued, origin, origins) ==
    rows_queued >= INSERT_BATCH_SIZE \/ origin = origins

InitHeatmap ==
    /\ InitRequestLayerIdle
    /\ InitServiceIdle
    /\ InitSplitIdle
    /\ InitCacheIdle
    /\ chunk \in ChunkSample
    /\ index = 0
    /\ origin_point_cell_index = << >>
    /\ distances_list = "none"
    /\ h3_index = << >>
    /\ mapped_cost = << >>
    /\ i = 0
    /\ insert_string = << >>
    /\ num_rows_queued = 0
    /\ matrix = << >>
    /\ queued = << >>
    /\ log = << >>
    /\ pc = "hm_loop"

heatmapFrame == << requestLayerVars, splitVars, cacheVars >>

\* the for statement takes the next cell of the chunk and builds its request
NextCell ==
    /\ pc = "hm_loop"
    /\ index < Len(chunk)
    /\ index' = index + 1
    /\ pc' = "hm_read"
    /\ UNCHANGED << chunk, origin_point_cell_index, distances_list, h3_index,
                    mapped_cost, i, insert_string, num_rows_queued, matrix,
                    queued, log >>
    /\ UNCHANGED heatmapFrame

\* create_input_table, read_network and drop_temp_tables return
ReadPhase ==
    /\ pc = "hm_read"
    /\ \E result \in CellResults :
          /\ origin_point_cell_index' = OriginCells(chunk[index], result.origins)
          /\ distances_list' = result.distances_list
    /\ pc' = "hm_compute"
    /\ UNCHANGED << chunk, index, h3_index, mapped_cost, i, insert_string,
                    num_rows_queued, matrix, queued, log >>
    /\ UNCHANGED heatmapFrame

\* where the handler of the read phase goes on: continue for the two
\* errors of read_network, break for any other exception
AfterReadExceptAlwaysBreak(e) == "hm_close"

AfterReadExceptAlwaysContinue(e) == "hm_loop"

AfterReadExcept(e) ==
    IF e \in {"DisconnectedOriginError", "BufferExceedsNetworkError"}
    THEN "hm_loop"
    ELSE "hm_close"

\* the read phase raises: rollback, a message, then continue or break
ReadPhaseExcept ==
    /\ pc = "hm_read"
    /\ \E e \in {"DisconnectedOriginError", "BufferExceedsNetworkError", "Exception"} :
          /\ log' = Append(log, << IF e = "Exception" THEN "exiting" ELSE "skipping",
                                   chunk[index] >>)
          /\ pc' = AfterReadExcept(e)
    /\ UNCHANGED << chunk, index, origin_point_cell_index, distances_list,
                    h3_index, mapped_cost, i, insert_string, num_rows_queued,
                    matrix, queued >>
    /\ UNCHANGED heatmapFrame

\* the network is prepared and routed, the grid fetched, the batch reset
ComputeGrid ==
    /\ pc = "hm_compute"
    /\ h3_index' = get_cell_grid(chunk[index])
    /\ insert_string' = << >>
    /\ num_rows_queued' = 0
    /\ i' = 1
    /\ pc' = IF Len(origin_point_cell_index) = 0 THEN "hm_loop" ELSE "hm_origin"
    /\ UNCHANGED << chunk, index, origin_point_cell_index, distances_list,
                    mapped_cost, matrix, queued, log >>
    /\ UNCHANGED heatmapFrame

\* one pass of the loop over the origins, up to the test of the batch size
QueueOrigin ==
    /\ pc = "hm_origin"
    /\ mapped_cost' = network_to_grid_h3(distances_list, h3_index)
    /\ LET orig_id == origin_point_cell_index[i]
           added == add_to_insert_string(insert_string, num_rows_queued, orig_id,
                                         h3_index, mapped_cost', OrigH3_3(orig_id))
       IN  /\ insert_string' = added.insert_string
           /\ num_rows_queued' = added.num_rows_queued
           /\ queued' = queued \o NewRows(orig_id, h3_index, mapped_cost',
                                          OrigH3_3(orig_id))
           /\ IF Flush(added.num_rows_queued, i, Len(origin_point_cell_index))
              THEN pc' = "hm_write" /\ i' = i
              ELSE pc' = "hm_origin" /\ i' = i + 1
    /\ UNCHANGED << chunk, index, origin_point_cell_index, distances_list,
                    h3_index, matrix, log >>
    /\ UNCHANGED heatmapFrame

\* the insert string after a batch was written
BatchKept(string) == string

BatchAfterWrite(string) == << >>

\* write_to_db executes and commits the INSERT, then the batch is reset
WriteToDb ==
    /\ pc = "hm_write"
    /\ matrix' = Append(matrix, insert_string)
    /\ insert_string' = BatchAfterWrite(insert_string)
    /\ num_rows_queued' = 0
    /\ IF i = Len(origin_point_cell_index)
       THEN pc' = "hm_loop" /\ i' = i
       ELSE pc' = "hm_origin" /\ i' = i + 1
    /\ UNCHANGED << chunk, index, origin_point_cell_index, distances_list,
                    h3_index, mapped_cost, queued, log >>
    /\ UNCHANGED heatmapFrame

\* an exception in the compute and insert phase (a failing INSERT or
\* commit writes nothing): rollback, break
ComputePhaseExcept ==
    /\ pc \in {"hm_compute", "hm_origin", "hm_write"}
    /\ log' = Append(log, << "exiting", chunk[index] >>)
    /\ pc' = "hm_close"
    /\ UNCHANGED << chunk, index, origin_point_cell_index, distances_list,
                    h3_index, mapped_cost, i, insert_string, num_rows_queued,
                    matrix, queued >>
    /\ UNCHANGED heatmapFrame

\* the loop is over or was left: the event loop is closed, the worker ends
Finish ==
    /\ \/ pc = "hm_loop" /\ index = Len(chunk)
       \/ pc = "hm_close"
    /\ pc' = "hm_finished"
    /\ UNCHANGED heatmapVars
    /\ UNCHANGED << i, insert_string >>
    /\ UNCHANGED heatmapFrame

NextHeatmap ==
    \/ NextCell
    \/ ReadPhase
    \/ ReadPhaseExcept
    \/ ComputeGrid
    \/ QueueOrigin
    \/ WriteToDb
    \/ ComputePhaseExcept
    \/ Finish

SpecHeatmap == InitHeatmap /\ [][NextHeatmap]_vars

\* the worker is a process of its own: once the loop is over or was left,
\* the statements after it are executed
FairSpecHeatmap == SpecHeatmap /\ WF_vars(Finish)

\* --------------------------------------------- claims on the heatmap worker
\* print_error has announced that the worker exits
Aborted == \E k \in 1..Len(log) : log[k][1] = "exiting"

\* the cells that the worker skipped
SkippedCells == {log[k][2] : k \in {j \in 1..Len(log) : log[j][1] = "skipping"}}

\* the rows of the committed INSERTs, in the order written
MatrixRows == FlatMap(matrix, [k \in 1..Len(matrix) |-> k])

\* the H3-6 cell an origin cell lies in
ParentCell(orig_id) == orig_id \div 100

\* C11: a cell skipped for DisconnectedOriginError or
\* BufferExceedsNetworkError has no row in the matrix, and a worker that
\* ends without announcing an exit has taken every cell of its chunk.
C11_SkippedCellContinues ==
    /\ \A batch \in Range(matrix) : \A row \in Range(batch) :
          ParentCell(row.orig_id) \notin SkippedCells
    /\ (pc = "hm_finished" /\ ~Aborted) => index = Len(chunk)

\* the first cell of the chunk was skipped and a later cell has rows
C11_Witness ==
    /\ pc = "hm_finished"
    /\ ~Aborted
    /\ chunk[1] \in SkippedCells
    /\ \E batch \in Range(matrix) : \E row \in Range(batch) :
          ParentCell(row.orig_id) \in Range(chunk) \ SkippedCells

\* C12: once the worker has announced an exit, for an exception in the
\* read phase or in the compute and insert phase, it takes no further cell
\* and writes no further row, and it ends.
C12_OtherExceptionEndsWorker ==
    /\ [][Aborted => (index' = index /\ matrix' = matrix)]_vars
    /\ (Aborted ~> pc = "hm_finished")

\* the worker ended after an exception in the insert phase, with rows
\* queued but not written and a cell of the chunk left
C12_Witness ==
    /\ pc = "hm_finished"
    /\ Aborted
    /\ index < Len(chunk)
    /\ Len(queued) > Len(MatrixRows)

\* C15: whenever the worker is between two cells or has ended, without
\* an exit, the matrix holds the queued rows, each once and in the order
\* queued, and the batch is empty.
C15_QueuedRowsWrittenOnce ==
    (pc \in {"hm_loop", "hm_finished"} /\ ~Aborted)
        => /\ MatrixRows = queued
           /\ insert_string = << >>
           /\ num_rows_queued = 0

\* a cell written in two batches is done and another cell follows
C15_Witness ==
    /\ pc = "hm_loop"
    /\ ~Aborted
    /\ index \in 1..(Len(chunk) - 1)
    /\ Len(matrix) >= 2
    /\ Len(matrix[1]) >= INSERT_BATCH_SIZE

\* C16: an INSERT that write_to_db issues carries at least one row and at
\* most INSERT_BATCH_SIZE rows.
C16_BatchWithinSize ==
    pc = "hm_write"
        => /\ num_rows_queued = Len(insert_string)
           /\ Len(insert_string) \in 1..INSERT_BATCH_SIZE

\* ============================================================== SpecSplit
\* HeatmapMatrixPreparation.split_cells_into_chunks on bounded lists

MaxCells == 4
MaxThreads == 3

\* H3-6 cells of the geofence
CellIds == {1, 2, 3}

\* lists of at most n cells
CellLists(n) == UNION {[1..len -> CellIds] : len \in 0..n}

\* end of the chunk of thread i that begins at start
ChunkEndNoRemainder(start, chunk_size, thread, remainder) == start + chunk_size

ChunkEnd(start, chunk_size, thread, remainder) ==
    start + chunk_size + (IF thread < remainder THEN 1 ELSE 0)

NextStartBeforeEnd(end) == IF end > 0 THEN end - 1 ELSE 0

\* line 59: start = end
NextStart(end) == end

\* the passes of the loop from thread i on, the first beginning at start
RECURSIVE SplitFrom(_, _, _, _, _, _)
SplitFrom(cells, threads, chunk_size, remainder, thread, start) ==
    IF thread >= threads THEN << >>
    ELSE LET end == ChunkEnd(start, chunk_size, thread, remainder)
         IN  << << thread, SubSeq(cells, start + 1, end) >> >>
                 \o SplitFrom(cells, threads, chunk_size, remainder, thread + 1,
                              NextStart(end))

split_cells_into_chunks(cells, threads) ==
    SplitFrom(cells, threads, Len(cells) \div threads, Len(cells) % threads, 0, 0)

InitSplit ==
    /\ InitRequestLayerIdle
    /\ InitServiceIdle
    /\ InitHeatmapIdle
    /\ InitCacheIdle
    /\ i = 0
    /\ insert_string = << >>
    /\ cells_to_process \in CellLists(MaxCells)
    /\ NUM_THREADS \in 1..MaxThreads
    /\ chunks = << >>
    /\ pc = "split"

ApplySplitCellsIntoChunks ==
    /\ pc = "split"
    /\ chunks' = split_cells_into_chunks(cells_to_process, NUM_THREADS)
    /\ pc' = "split_done"
    /\ UNCHANGED << cells_to_process, NUM_THREADS, i, insert_string >>
    /\ UNCHANGED << requestLayerVars, heatmapVars, cacheVars >>

NextSplit == ApplySplitCellsIntoChunks

SpecSplit == InitSplit /\ [][NextSplit]_vars

\* ----------------------------------------- claims on split_cells_into_chunks
SplitCalled == pc = "split_done"

\* the cells of the chunks, in the order of the chunk ids
ChunkCells == FlatMap([k \in 1..Len(chunks) |-> chunks[k][2]],
                      [k \in 1..Len(chunks) |-> k])

\* C17: split_cells_into_chunks returns NUM_THREADS chunks with the ids
\* 0..NUM_THREADS-1, their concatenation in id order is the input list, and
\* the first (len mod NUM_THREADS) chunks hold one cell more than the others.
C17_ChunksPartitionCells ==
    SplitCalled =>
        LET len == Len(cells_to_process)
        IN  /\ Len(chunks) = NUM_THREADS
            /\ \A k \in 1..Len(chunks) :
                  /\ chunks[k][1] = k - 1
                  /\ Len(chunks[k][2]) =
                        (len \div NUM_THREADS)
                            + (IF k <= len % NUM_THREADS THEN 1 ELSE 0)
            /\ ChunkCells = cells_to_process

\* several threads, a remainder, and distinct cells
C17_Witness ==
    /\ SplitCalled
    /\ NUM_THREADS = MaxThreads
    /\ Len(cells_to_process) = MaxCells
    /\ Len(cells_to_process) % NUM_THREADS # 0
    /\ Cardinality(Range(cells_to_process)) = Cardinality(CellIds)
    /\ Len(chunks[1][2]) > Len(chunks[NUM_THREADS][2])

\* ============================================================== SpecFetch
\* processes that run FetchRoutingNetwork.fetch on one CACHE_DIR: workers
\* of the request layer and of the heatmap, each loading the network when
\* it starts

MaxRuns == 2

\* the processes; a process runs fetch again when it is started again
Procs == {1, 2}

\* a process that is not running fetch
FetchIdle ==
    [pc |-> "idle", run |-> 0, index |-> 0, segments_df |-> << >>,
     cached |-> {}, raised |-> "none"]

\* h3_index of the current pass of the loop
FetchKey(proc) == H3_3_Grid[proc.index]

\* segments_df with a data frame stored under a key
WithShard(segments_df, key, df) ==
    [k \in DOMAIN segments_df \cup {key} |->
        IF k = key THEN df ELSE segments_df[k]]

\* the end of a pass of the loop: the next key, or the return
NextPass(proc) ==
    IF proc.index < Len(H3_3_Grid)
    THEN [proc EXCEPT !.index = @ + 1, !.pc = "exists"]
    ELSE [proc EXCEPT !.pc = "done"]

\* the handler of the loop: the exception is printed, what is loaded so
\* far is returned
FetchExcept(proc, what) == [proc EXCEPT !.pc = "done", !.raised = what]

InitFetch ==
    /\ InitRequestLayerIdle
    /\ InitServiceIdle
    /\ InitHeatmapIdle
    /\ InitSplitIdle
    /\ i = 0
    /\ insert_string = << >>
    /\ pc = "fetching"
    /\ files = [k \in Range(H3_3_Grid) |-> "absent"]
    /\ fetch = [p \in Procs |-> FetchIdle]
    /\ selects = {}

fetchFrame == << requestLayerVars, heatmapVars, splitVars, pc, i, insert_string >>

\* a process calls fetch: the grid is queried, the loop begins
FetchStart(p) ==
    /\ fetch[p].pc \in {"idle", "done", "crashed"}
    /\ fetch[p].run < MaxRuns
    /\ fetch' = [fetch EXCEPT ![p] =
          [pc |-> "exists", run |-> fetch[p].run + 1, index |-> 1,
           segments_df |-> << >>,
           cached |-> {k \in DOMAIN files : files[k] # "absent"},
           raised |-> "none"]]
    /\ UNCHANGED << files, selects >>
    /\ UNCHANGED fetchFrame

\* os.path.exists for a file in the given state
CacheFileNeverExists(file) == FALSE

CacheFileExists(file) == file # "absent"

\* the test of the loop on the cache file of the key
PathExists(p) ==
    /\ fetch[p].pc = "exists"
    /\ fetch' = [fetch EXCEPT ![p].pc =
          IF CacheFileExists(files[FetchKey(fetch[p])]) THEN "read" ELSE "select"]
    /\ UNCHANGED << files, selects >>
    /\ UNCHANGED fetchFrame

\* pl.read_parquet of a complete file
ReadParquet(p) ==
    /\ fetch[p].pc = "read"
    /\ files[FetchKey(fetch[p])] = "complete"
    /\ LET key == FetchKey(fetch[p])
       IN  fetch' = [fetch EXCEPT ![p] =
              NextPass([fetch[p] EXCEPT
                  !.segments_df = WithShard(@, key, Shard(segment, key))])]
    /\ UNCHANGED << files, selects >>
    /\ UNCHANGED fetchFrame

\* pl.read_parquet raises: the file is not a whole parquet file, or the
\* disk fails
ReadParquetFails(p) ==
    /\ fetch[p].pc = "read"
    /\ fetch' = [fetch EXCEPT ![p] = FetchExcept(fetch[p], "read_parquet")]
    /\ UNCHANGED << files, selects >>
    /\ UNCHANGED fetchFrame

\* pl.read_database_uri: the shard SELECT, and json_extract
Select(p) ==
    /\ fetch[p].pc = "select"
    /\ LET key == FetchKey(fetch[p])
       IN  /\ selects' = selects \cup {<< p, fetch[p].run, key >>}
           /\ fetch' = [fetch EXCEPT ![p] =
                 [fetch[p] EXCEPT
                     !.segments_df = WithShard(@, key, Shard(segment, key)),
                     !.pc = "open"]]
    /\ UNCHANGED files
    /\ UNCHANGED fetchFrame

SelectFails(p) ==
    /\ fetch[p].pc = "select"
    /\ fetch' = [fetch EXCEPT ![p] = FetchExcept(fetch[p], "read_database_uri")]
    /\ UNCHANGED << files, selects >>
    /\ UNCHANGED fetchFrame

\* open(path, "wb"): the file exists from now on, empty
OpenFile(p) ==
    /\ fetch[p].pc = "open"
    /\ files' = [files EXCEPT ![FetchKey(fetch[p])] = "partial"]
    /\ fetch' = [fetch EXCEPT ![p].pc = "write"]
    /\ UNCHANGED selects
    /\ UNCHANGED fetchFrame

\* write_parquet writes the whole data frame and the file is closed
WriteParquet(p) ==
    /\ fetch[p].pc = "write"
    /\ files' = [files EXCEPT ![FetchKey(fetch[p])] = "complete"]
    /\ fetch' = [fetch EXCEPT ![p] = NextPass(fetch[p])]
    /\ UNCHANGED selects
    /\ UNCHANGED fetchFrame

\* open or write_parquet raises; what was written stays
WriteFails(p) ==
    /\ fetch[p].pc \in {"open", "write"}
    /\ fetch' = [fetch EXCEPT ![p] = FetchExcept(fetch[p], "write_parquet")]
    /\ UNCHANGED << files, selects >>
    /\ UNCHANGED fetchFrame

\* the process is killed while it runs fetch
Crash(p) ==
    /\ fetch[p].pc \in {"exists", "read", "select", "open", "write"}
    /\ fetch' = [fetch EXCEPT ![p].pc = "crashed"]
    /\ UNCHANGED << files, selects >>
    /\ UNCHANGED fetchFrame

NextFetch ==
    \E p \in Procs :
        \/ FetchStart(p)
        \/ PathExists(p)
        \/ ReadParquet(p)
        \/ ReadParquetFails(p)
        \/ Select(p)
        \/ SelectFails(p)
        \/ OpenFile(p)
        \/ WriteParquet(p)
        \/ WriteFails(p)
        \/ Crash(p)

SpecFetch == InitFetch /\ [][NextFetch]_vars

\* ------------------------------------------------------- claims on fetch
\* keys whose shard SELECT the process has executed in its current fetch
SelectedNow(p) ==
    {k \in Range(H3_3_Grid) : << p, fetch[p].run, k >> \in selects}

\* keys whose pass of the loop the current fetch of the process completed
Passed(p) ==
    {H3_3_Grid[j] : j \in 1..(fetch[p].index - 1)}
        \cup (IF fetch[p].pc = "done" /\ fetch[p].raised = "none"
              THEN {FetchKey(fetch[p])} ELSE {})

\* a step of fetch selects exactly when the test found no cache file
SelectAfterTest ==
    /\ \A p \in Procs :
          (fetch[p].pc = "exists" /\ fetch'[p].pc \in {"read", "select"})
              => (fetch'[p].pc = "select" <=> files[FetchKey(fetch[p])] = "absent")
    /\ selects' # selects
          => \E p \in Procs :
                /\ fetch[p].pc = "select"
                /\ selects' = selects \cup {<< p, fetch[p].run, FetchKey(fetch[p]) >>}

\* a fetch selects no key that had a cache file when it began, and a key
\* it selected has a cache file once its pass is complete
CachedAfterSelect ==
    \A p \in Procs :
        /\ SelectedNow(p) \cap fetch[p].cached = {}
        /\ \A k \in SelectedNow(p) \cap Passed(p) : files[k] # "absent"

C19_VisibleFileComplete ==
    \A p \in Procs :
        fetch[p].pc = "read" => files[FetchKey(fetch[p])] = "complete"

\* C20: a fetch in which read_parquet failed returns the network with
\* every key of the grid, loaded from the database.
C20_ReadFailureFallsBackToSql ==
    \A p \in Procs :
        (fetch[p].pc = "done" /\ fetch[p].raised = "read_parquet")
            => \A k \in Range(H3_3_Grid) :
                  /\ k \in DOMAIN fetch[p].segments_df
                  /\ fetch[p].segments_df[k] = Shard(segment, k)

\* ================================================ claims on run, continued
\* run has passed line 434 and works on self.routing_network
PastFetch == pc \notin {"idle", "fetch"}

\* the routing network holds the shard of every cell of the grid
NetworkComplete == DOMAIN routing_network.shards = Range(H3_3_Grid)

\* C21: a shard that failed to load is reported by fetch as an error and is
\* loaded again by a later request, so a run that has passed the fetch never
\* works on a routing network with a shard missing.
C21_ShardLoadFailureReported == PastFetch => NetworkComplete

\* the INSERT statements committed for a layer, in the order of their commit
StatementsOfLayer(layer_id) ==
    SelectSeq(result_table, LAMBDA st : st.layer_id = layer_id)

\* save_result has returned for a request with network output
NetworkSaved == pc = "success" /\ obj_in.isochrone_type = "network"

\* C22: for network output save_result inserts every feature exactly once,
\* in consecutive statements of batch_size features each; only the final
\* statement may hold fewer.
C22_NetworkInsertedInBatches ==
    NetworkSaved =>
        LET sts == StatementsOfLayer(obj_in.layer_id)
        IN  /\ isochrone > 0 => /\ sts # << >>
                                /\ sts[1].first = 0
                                /\ sts[Len(sts)].last = isochrone - 1
            /\ \A k \in 1..Len(sts) :
                  /\ sts[k].first <= sts[k].last
                  /\ k < Len(sts) => /\ sts[k + 1].first = sts[k].last + 1
                                     /\ sts[k].last - sts[k].first + 1 = batch_size

\* the features that the committed statements of a layer hold
FeaturesOfLayer(layer_id) ==
    UNION {st.first..st.last : st \in Range(StatementsOfLayer(layer_id))}

\* run is in its read phase, in the handler of the read phase or in its
\* compute phase
BeforeSave == pc \in {"create", "read", "delete", "except", "except_rollback",
                      "compute"}

\* run returned from a handler before save_result had executed a statement
FailedBeforeSave == RunFailed /\ i = 0

\* C24: in run, success is written only after save_result committed all
\* result rows, save_result starts only after the compute phase succeeded,
\* the compute phase starts only after the input table was dropped, and a
\* run whose read or compute phase fails writes no result row.
C24_StepsInOrder ==
    /\ (RunReturned /\ redis[obj_in.layer_id] = "success") =>
          /\ exc = "none"
          /\ txn = << >>
          /\ obj_in.isochrone_type # "rectangular_grid" =>
                FeaturesOfLayer(obj_in.layer_id) = 0..(isochrone - 1)
    /\ pc \in {"save", "save_commit"} =>
          /\ exc = "none"
          /\ read_result.returned
          /\ isochrone \in FeatureCounts
    /\ pc \in {"compute", "save", "save_commit", "save_except", "success"} =>
          /\ input_table # NULL
          /\ input_table \notin tables
    /\ (BeforeSave \/ FailedBeforeSave) =>
          /\ RowsOfLayer(result_table, obj_in.layer_id) = {}
          /\ txn = << >>

C24_Witness ==
    /\ RunReturned
    /\ redis[obj_in.layer_id] = "success"
    /\ obj_in.isochrone_type = "network"
    /\ isochrone = batch_size + 2
    /\ Len(StatementsOfLayer(obj_in.layer_id)) = 3

\* the edges of the sub-network that the splicer made
ArtificialRows == {e \in SubNetworkRows : e.id >= ArtificialIdBase}

\* a request of another layer was served before the one at hand
ServedBefore ==
    \E l \in LayerIds : l # obj_in.layer_id /\ redis[l] \notin {"nil", "in_progress"}

\* C25: read_network leaves the routing network unchanged: after any
\* sequence of requests every shard holds exactly the edges it held when it
\* was loaded, and the artificial edges of a sub-network are those of its
\* own request.
C25_NetworkUnchangedByRead ==
    /\ routing_network.fetched =>
          \A k \in DOMAIN routing_network.shards :
              routing_network.shards[k] = Shard(segment, k)
    /\ read_result.returned =>
          \A e \in ArtificialRows : \E a_seg \in Range(SplicerRows) : a_seg.id = e.id

C25_Witness ==
    /\ ServedBefore
    /\ read_result.returned
    /\ ArtificialRows # {}

TerminalStatus == {"success", "failure", "disconnected_origin"}

\* the last answer a client got for the layer of the run was a failure
FailureAnswered ==
    response.layer_id = obj_in.layer_id /\ response.status_code = 500

\* C27: the worker writes at most one terminal status per run and never
\* replaces it by another: a client polling compute_catchment_area during
\* the run is never answered failure for a run that ends as
\* disconnected_origin.
C27_OneTerminalStatus ==
    /\ [][\A l \in LayerIds :
            redis[l] \in TerminalStatus => redis'[l] = redis[l]]_vars
    /\ []((RunReturned /\ redis[obj_in.layer_id] = "disconnected_origin")
            => ~FailureAnswered)

\* the task of the worker is over: run returned or raised
TaskOver == pc \in {"returned", "raised"}

\* C28: every computation that compute_catchment_area enqueued replaces the
\* in_progress status of its layer by a terminal status, whichever step of
\* run fails: when the task is over, the status of its layer is terminal.
C28_TaskEndsWithTerminalStatus ==
    TaskOver => redis[obj_in.layer_id] \in TerminalStatus

\* ------------------------------- claims on add_to_insert_string, continued
\* the traveltime values whose row lists a destination cell
TraveltimesOf(cell) ==
    {insert_string[k].traveltime :
        k \in {j \in 1..Len(insert_string) : cell \in Range(insert_string[j].dest_id)}}

\* C30: among the rows that one call of add_to_insert_string queues for an
\* origin, every destination cell, the origin cell included, is in the
\* destination list of at most one traveltime value.
C30_OneTraveltimePerDestination ==
    AddCalled =>
        \A cell \in Range(h3_index) \cup Range(origin_point_cell_index) :
            Cardinality(TraveltimesOf(cell)) <= 1

\* ==================================================== compute_motis_request
\* status codes with which the planner answers
SuccessStatus == 200..208
ErrorStatus == (400..431) \cup (500..511)

\* exceptions of httpx.RequestError that client.get raises
RequestErrors == {"ConnectError", "ConnectTimeout", "ReadTimeout"}

\* what client.get yields: a response, whose body is JSON or plain text, or
\* a request error
UpstreamResponse(status_code, is_json) ==
    [kind |-> "response", status_code |-> status_code, is_json |-> is_json,
     text |-> IF is_json THEN "{routes}" ELSE "Internal Server Error"]

UpstreamError(type) == [kind |-> "error", type |-> type]

Upstream ==
    {UpstreamResponse(s, j) : s \in SuccessStatus \cup ErrorStatus, j \in BOOLEAN}
        \cup {UpstreamError(t) : t \in RequestErrors}

\* response.raise_for_status() raises HTTPStatusError
raise_for_status(r) == r.status_code \notin 200..299

JSONResponse(content, status_code) ==
    [status_code |-> status_code, content |-> content]

\* FastAPI answers a raised HTTPException with its status code and detail
HTTPException(status_code, detail) ==
    [status_code |-> status_code, content |-> [detail |-> detail]]

StatusOfHTTPStatusErrorAlways500(r) == 500

\* line 152: status_code=e.response.status_code
StatusOfHTTPStatusError(r) == r.status_code

\* lines 135-158; response.json() of a body that is not JSON raises a
\* JSONDecodeError, which no handler catches: the server answers 500
compute_motis_request(r) ==
    IF r.kind = "error"
    THEN HTTPException(503, << "Cannot connect to motis service: ", r.type >>)
    ELSE IF raise_for_status(r)
    THEN HTTPException(StatusOfHTTPStatusError(r),
                       << "Error from motis service: ", r.text >>)
    ELSE IF ~r.is_json
    THEN [status_code |-> 500, content |-> "Internal Server Error"]
    ELSE JSONResponse([result |-> r.text,
                       message |-> "Plan computed successfully."], 200)

InitMotis ==
    /\ InitRequestLayerIdle
    /\ InitHeatmapIdle
    /\ InitSplitIdle
    /\ InitCacheIdle
    /\ pc = "motis"
    /\ i = 0
    /\ insert_string = 0
    /\ upstream \in Upstream
    /\ motis_response = "none"
    /\ InitPrepIdle
    /\ InitApiIdle

ApplyComputeMotisRequest ==
    /\ pc = "motis"
    /\ motis_response' = compute_motis_request(upstream)
    /\ pc' = "motis_done"
    /\ UNCHANGED << upstream, i, insert_string >>
    /\ UNCHANGED << segment, routing_network, obj_in, h3_6_cells, read_result,
                    redis, tasks, response, uuid, input_table, tables, exc,
                    isochrone, txn, result_table >>
    /\ UNCHANGED << heatmapVars, splitVars, cacheVars, prepVars, apiVars >>

NextMotis == ApplyComputeMotisRequest

SpecMotis == InitMotis /\ [][NextMotis]_vars

\* ------------------------------------------ claims on compute_motis_request
MotisAnswered == pc = "motis_done"

PlanComputed ==
    /\ motis_response.status_code = 200
    /\ motis_response.content.message = "Plan computed successfully."

\* C23: compute_motis_request answers 200 with 'Plan computed successfully.'
\* only when the call of the planner succeeded; an error status s of the
\* planner is answered with the same status s and a detail that contains
\* 'Error from motis service'; a planner that cannot be reached is answered
\* with 503.
C23_MotisAnswer ==
    MotisAnswered =>
        /\ motis_response.status_code = 200 =>
              /\ PlanComputed
              /\ upstream.kind = "response"
              /\ upstream.status_code \in SuccessStatus
        /\ (upstream.kind = "response" /\ upstream.status_code \in ErrorStatus) =>
              /\ motis_response.status_code = upstream.status_code
              /\ motis_response.content.detail[1] = "Error from motis service: "
        /\ upstream.kind = "error" => motis_response.status_code = 503

C23_Witness ==
    /\ MotisAnswered
    /\ upstream = UpstreamResponse(404, FALSE)
    /\ motis_response.status_code = 404
    /\ motis_response.content.detail[1] = "Error from motis service: "

\* ============================================== HeatmapMatrixPreparation.run
\* what a worker gets for a cell: the number of origins and the costs of the
\* two destination cells (no cell reached, or one and two minutes)
PrepCellResults ==
    {[origins |-> 1, costs |-> << NaN, NaN >>],
     [origins |-> 2, costs |-> << 10, 20 >>]}

\* the rows a worker inserts for a cell
CellRows(h3_6_index, result) ==
    UNION {Range(NewRows(orig_id, OriginCells(h3_6_index, 2), result.costs,
                         OrigH3_3(orig_id))) :
              orig_id \in Range(OriginCells(h3_6_index, result.origins))}

\* PRIMARY KEY (orig_id, traveltime, h3_3)
PrimaryKey(row) == << row.orig_id, row.traveltime, row.h3_3 >>

\* bounds of the cell list and of the number of worker processes
MaxPrepCells == 3
MaxWorkers == 2

\* a matrix table of an earlier run may exist
InitPrep ==
    /\ InitRequestLayerIdle
    /\ InitMotisIdle
    /\ InitApiIdle
    /\ InitHeatmapIdle
    /\ InitCacheIdle
    /\ i = 0
    /\ insert_string = << >>
    /\ cells_to_process \in CellLists(MaxPrepCells)
    /\ NUM_THREADS \in 1..MaxWorkers
    /\ chunks = << >>
    /\ matrix_table \in {"absent", "old"}
    /\ workers = << >>
    /\ inserted = {}
    /\ pc = "prep_split"

\* line 116
PrepSplit ==
    /\ pc = "prep_split"
    /\ chunks' = split_cells_into_chunks(cells_to_process, NUM_THREADS)
    /\ pc' = "prep_create"
    /\ UNCHANGED << cells_to_process, NUM_THREADS, matrix_table, workers, inserted >>
    /\ UNCHANGED << segment, routing_network, obj_in, h3_6_cells, read_result,
                    redis, tasks, response, uuid, input_table, tables, exc,
                    isochrone, txn, result_table, motisVars, apiVars >>
    /\ UNCHANGED << heatmapVars, cacheVars, i, insert_string >>

\* lines 69-93: DROP TABLE IF EXISTS, CREATE TABLE, create_distributed_table
PrepCreateTable ==
    /\ pc = "prep_create"
    /\ pc' = "prep_commit"
    /\ UNCHANGED << cells_to_process, NUM_THREADS, chunks, matrix_table, workers,
                    inserted >>
    /\ UNCHANGED << segment, routing_network, obj_in, h3_6_cells, read_result,
                    redis, tasks, response, uuid, input_table, tables, exc,
                    isochrone, txn, result_table, motisVars, apiVars >>
    /\ UNCHANGED << heatmapVars, cacheVars, i, insert_string >>

\* line 96
PrepCommit ==
    /\ pc = "prep_commit"
    /\ matrix_table' = "new"
    /\ pc' = "prep_pool"
    /\ UNCHANGED << cells_to_process, NUM_THREADS, chunks, workers, inserted >>
    /\ UNCHANGED << segment, routing_network, obj_in, h3_6_cells, read_result,
                    redis, tasks, response, uuid, input_table, tables, exc,
                    isochrone, txn, result_table, motisVars, apiVars >>
    /\ UNCHANGED << heatmapVars, cacheVars, i, insert_string >>

\* a statement of initialize_traveltime_matrix_table or its commit raises:
\* run raises before the pool exists and nothing is committed
PrepInitFails ==
    /\ pc \in {"prep_create", "prep_commit"}
    /\ pc' = "prep_raised"
    /\ UNCHANGED << cells_to_process, NUM_THREADS, chunks, matrix_table, workers,
                    inserted >>
    /\ UNCHANGED << segment, routing_network, obj_in, h3_6_cells, read_result,
                    redis, tasks, response, uuid, input_table, tables, exc,
                    isochrone, txn, result_table, motisVars, apiVars >>
    /\ UNCHANGED << heatmapVars, cacheVars, i, insert_string >>

\* lines 126-127: one task per chunk, at most NUM_THREADS processes
PrepStartPool ==
    /\ pc = "prep_pool"
    /\ workers' = [k \in 1..Len(chunks) |-> [state |-> "running", index |-> 0]]
    /\ pc' = "prep_map"
    /\ UNCHANGED << cells_to_process, NUM_THREADS, chunks, matrix_table, inserted >>
    /\ UNCHANGED << segment, routing_network, obj_in, h3_6_cells, read_result,
                    redis, tasks, response, uuid, input_table, tables, exc,
                    isochrone, txn, result_table, motisVars, apiVars >>
    /\ UNCHANGED << heatmapVars, cacheVars, i, insert_string >>

\* process_chunk: HeatmapMatrixProcess.run handles the next cell of its
\* chunk and executes the INSERT of its rows; a row whose key the table
\* holds already makes the INSERT raise, which ends the worker
WorkerCell(k) ==
    /\ pc = "prep_map"
    /\ workers[k].state = "running"
    /\ workers[k].index < Len(chunks[k][2])
    /\ \E result \in PrepCellResults :
          LET thread_id == chunks[k][1]
              rows == CellRows(chunks[k][2][workers[k].index + 1], result)
              keys == {PrimaryKey(r.row) : r \in inserted}
              duplicate == \E row \in rows : PrimaryKey(row) \in keys
          IN  /\ inserted' = inserted \cup
                     {[thread_id |-> thread_id, row |-> row,
                       committed |-> ~duplicate] : row \in rows}
              /\ workers' = [workers EXCEPT
                     ![k] = [state |-> IF duplicate THEN "finished" ELSE "running",
                             index |-> workers[k].index + 1]]
    /\ UNCHANGED << cells_to_process, NUM_THREADS, chunks, matrix_table, pc >>
    /\ UNCHANGED << segment, routing_network, obj_in, h3_6_cells, read_result,
                    redis, tasks, response, uuid, input_table, tables, exc,
                    isochrone, txn, result_table, motisVars, apiVars >>
    /\ UNCHANGED << heatmapVars, cacheVars, i, insert_string >>

\* the read phase of a cell raises: the cell is skipped, or the worker ends
WorkerCellExcept(k) ==
    /\ pc = "prep_map"
    /\ workers[k].state = "running"
    /\ workers[k].index < Len(chunks[k][2])
    /\ \E next \in {"running", "finished"} :
          workers' = [workers EXCEPT ![k] = [state |-> next,
                                             index |-> workers[k].index + 1]]
    /\ UNCHANGED << cells_to_process, NUM_THREADS, chunks, matrix_table,
                    inserted, pc >>
    /\ UNCHANGED << segment, routing_network, obj_in, h3_6_cells, read_result,
                    redis, tasks, response, uuid, input_table, tables, exc,
                    isochrone, txn, result_table, motisVars, apiVars >>
    /\ UNCHANGED << heatmapVars, cacheVars, i, insert_string >>

\* the loop of a worker is over
WorkerFinish(k) ==
    /\ pc = "prep_map"
    /\ workers[k].state = "running"
    /\ workers[k].index = Len(chunks[k][2])
    /\ workers' = [workers EXCEPT ![k].state = "finished"]
    /\ UNCHANGED << cells_to_process, NUM_THREADS, chunks, matrix_table,
                    inserted, pc >>
    /\ UNCHANGED << segment, routing_network, obj_in, h3_6_cells, read_result,
                    redis, tasks, response, uuid, input_table, tables, exc,
                    isochrone, txn, result_table, motisVars, apiVars >>
    /\ UNCHANGED << heatmapVars, cacheVars, i, insert_string >>

\* the with statement of line 126 waits for every process
PrepPoolDone ==
    /\ pc = "prep_map"
    /\ \A k \in 1..Len(workers) : workers[k].state = "finished"
    /\ pc' = "prep_done"
    /\ UNCHANGED << cells_to_process, NUM_THREADS, chunks, matrix_table,
                    workers, inserted >>
    /\ UNCHANGED << segment, routing_network, obj_in, h3_6_cells, read_result,
                    redis, tasks, response, uuid, input_table, tables, exc,
                    isochrone, txn, result_table, motisVars, apiVars >>
    /\ UNCHANGED << heatmapVars, cacheVars, i, insert_string >>

NextPrep ==
    \/ PrepSplit
    \/ PrepCreateTable
    \/ PrepCommit
    \/ PrepInitFails
    \/ PrepStartPool
    \/ \E k \in 1..Len(workers) : WorkerCell(k)
    \/ \E k \in 1..Len(workers) : WorkerCellExcept(k)
    \/ \E k \in 1..Len(workers) : WorkerFinish(k)
    \/ PrepPoolDone

SpecPrep == InitPrep /\ [][NextPrep]_vars

\* ------------------------------------------- claims on the pool of workers
\* the geofence cell list holds no cell twice
NoDuplicateCell ==
    \A a, b \in 1..Len(cells_to_process) :
        a # b => cells_to_process[a] # cells_to_process[b]

\* the cells that worker k has taken from its chunk
CellsTaken(k) == {chunks[k][2][j] : j \in 1..workers[k].index}

\* C26: under any interleaving of the workers of HeatmapMatrixPreparation.run
\* no two workers process the same H3-6 cell and no two workers insert a row
\* with the same primary key, provided the cell list holds no duplicate; and
\* workers insert only after the matrix table was created and committed.
C26_WorkersDisjoint ==
    /\ NoDuplicateCell =>
          /\ \A j, k \in 1..Len(workers) :
                j # k => CellsTaken(j) \cap CellsTaken(k) = {}
          /\ \A a, b \in inserted :
                a.thread_id # b.thread_id => PrimaryKey(a.row) # PrimaryKey(b.row)
    /\ (workers # << >> \/ inserted # {}) => matrix_table = "new"

C26_Witness ==
    /\ NoDuplicateCell
    /\ pc = "prep_done"
    /\ Len(cells_to_process) = 3
    /\ \E a, b \in inserted : a.thread_id # b.thread_id /\ a.row.traveltime = 2
    /\ \A k \in 1..Len(workers) : workers[k].index = Len(chunks[k][2])

\* ============================ compute_catchment_area, several server processes
\* server processes that answer requests at the same time
ApiProcs == {1, 2}

ApiIdle == [pc |-> "idle", layer_id |-> NULL, processing_status |-> "nil"]

InitApi ==
    /\ InitRequestLayerIdle
    /\ InitMotisIdle
    /\ InitPrepIdle
    /\ InitHeatmapIdle
    /\ InitSplitIdle
    /\ InitCacheIdle
    /\ i = 0
    /\ insert_string = 0
    /\ pc = "idle"
    /\ api = [p \in ApiProcs |-> ApiIdle]
    /\ delayed = [l \in LayerIds |-> 0]

apiFrame == << segment, routing_network, obj_in, h3_6_cells, read_result, uuid,
               input_table, tables, exc, isochrone, txn, result_table, i,
               insert_string, pc, motisVars, prepVars, heatmapVars, splitVars,
               cacheVars >>

\* a request for a layer id reaches process p
ApiReceive(p, layer_id) ==
    /\ api[p].pc = "idle"
    /\ api' = [api EXCEPT ![p] = [pc |-> "get", layer_id |-> layer_id,
                                  processing_status |-> "nil"]]
    /\ UNCHANGED << redis, tasks, response, delayed >>
    /\ UNCHANGED apiFrame

\* lines 64-65: processing_status = redis.get(layer_id)
ApiGet(p) ==
    /\ api[p].pc = "get"
    /\ api' = [api EXCEPT ![p].processing_status = redis[api[p].layer_id],
                          ![p].pc = IF redis[api[p].layer_id] = "nil"
                                    THEN "set" ELSE "respond"]
    /\ UNCHANGED << redis, tasks, response, delayed >>
    /\ UNCHANGED apiFrame

\* line 69: redis.set(layer_id, in_progress)
ApiSet(p) ==
    /\ api[p].pc = "set"
    /\ redis' = [redis EXCEPT ![api[p].layer_id] = "in_progress"]
    /\ api' = [api EXCEPT ![p].pc = "delay"]
    /\ UNCHANGED << tasks, response, delayed >>
    /\ UNCHANGED apiFrame

\* line 71: run_catchment_area.delay(params)
ApiDelay(p) ==
    /\ api[p].pc = "delay"
    /\ tasks' = Append(tasks, api[p].layer_id)
    /\ delayed' = [delayed EXCEPT ![api[p].layer_id] = @ + 1]
    /\ api' = [api EXCEPT ![p].pc = "respond"]
    /\ UNCHANGED << redis, response >>
    /\ UNCHANGED apiFrame

\* lines 72-114: the JSONResponse for the status that was read
ApiRespond(p) ==
    /\ api[p].pc = "respond"
    /\ response' = [layer_id |-> api[p].layer_id,
                    status_code |-> StatusCode(api[p].processing_status)]
    /\ api' = [api EXCEPT ![p] = ApiIdle]
    /\ UNCHANGED << redis, tasks, delayed >>
    /\ UNCHANGED apiFrame

\* the celery worker runs the next task up to the status it leaves
WorkerRunsTask ==
    /\ tasks # << >>
    /\ tasks' = Tail(tasks)
    /\ \E status \in ProcessingStatus :
          redis' = [redis EXCEPT ![Head(tasks)] = status]
    /\ UNCHANGED << response, api, delayed >>
    /\ UNCHANGED apiFrame

NextApi ==
    \/ \E p \in ApiProcs, layer_id \in LayerIds : ApiReceive(p, layer_id)
    \/ \E p \in ApiProcs : ApiGet(p)
    \/ \E p \in ApiProcs : ApiSet(p)
    \/ \E p \in ApiProcs : ApiDelay(p)
    \/ \E p \in ApiProcs : ApiRespond(p)
    \/ WorkerRunsTask

SpecApi == InitApi /\ [][NextApi]_vars

\* ------------------------------- claims on concurrent compute_catchment_area
\* C29: under any interleaving of concurrent requests with the same layer_id
\* at most one computation task is enqueued for it, and a request that finds
\* a status recorded enqueues nothing and leaves the stored status unchanged.
C29_AtMostOneTaskPerLayer ==
    /\ \A l \in LayerIds : delayed[l] <= 1
    /\ \A p \in ApiProcs :
          api[p].processing_status # "nil" => api[p].pc \notin {"set", "delay"}

====
